---- MODULE Spec2Model ----
(***************************************************************************)
(* Model of the CLUE formatting layer (clue/formatting_base.hpp) and of    *)
(* the string helpers exercised by tests/test_stringex.cpp.                *)
(*                                                                         *)
(* Characters are one-character strings; NUL stands for '\0'.  A buffer    *)
(* write is recorded as the sequence of characters stored from buf[0] on:  *)
(* out[i+1] is the character stored at buf[i].                             *)
(***************************************************************************)
EXTENDS Integers, Sequences, FiniteSets, TLC

\* ---------------------------------------------------------------- bounds
\* width of the modelled signed integer type T
IntBits == 7
\* largest minimum field width given to a formatter
MaxWidth == 5
\* largest buffer capacity handed to formatted_write
MaxBufLen == 7
\* largest base handed to ndigits
MaxBase == 17
\* longest string handed to prefix and suffix, and the largest count
MaxStrLen == 3
MaxCount == 4
\* longest character array handed to foreach_token_of
MaxTokStrLen == 5
\* width of the signed integer type T of value_range<T>
RangeBits == 3
\* the reduced binary floating-point format: bits of the significand
\* (hidden bit included) and the largest binary exponent, the least being
\* its negative
SigBits == 4
MaxExp == 8

MinInt == -(2 ^ (IntBits - 1))
MaxInt == (2 ^ (IntBits - 1)) - 1
IntValues == MinInt .. MaxInt

\* ---------------------------------------------------------------- flags
upper_case == 1
pad_zeros == 2
plus_sign == 4
left_just == 8
quoted == 16

FlagBits == {upper_case, pad_zeros, plus_sign, left_just, quoted}
FlagValues == 0 .. 31

RECURSIVE BitAnd(_, _)
BitAnd(a, b) ==
    IF a = 0 \/ b = 0 THEN 0
    ELSE (a % 2) * (b % 2) + 2 * BitAnd(a \div 2, b \div 2)

RECURSIVE BitOr(_, _)
BitOr(a, b) ==
    IF a = 0 THEN b
    ELSE IF b = 0 THEN a
    ELSE (IF (a % 2) + (b % 2) > 0 THEN 1 ELSE 0) + 2 * BitOr(a \div 2, b \div 2)

\* ---------------------------------------------------------------- characters
NUL == "NUL"
Undef == 0 - 1

Max(a, b) == IF a > b THEN a ELSE b
Min(a, b) == IF a < b THEN a ELSE b

RECURSIVE Fill(_, _)
Fill(c, n) == IF n = 0 THEN <<>> ELSE <<c>> \o Fill(c, n - 1)

\* ---------------------------------------------------------------- digit primitives
\* details::uabs : the unsigned magnitude of x
uabs(x) == IF x < 0 THEN 0 - x ELSE x

RECURSIVE CountDigits(_, _)
CountDigits(u, b) == IF u < b THEN 1 ELSE 1 + CountDigits(u \div b, b)

ndigits_oct(u) == CountDigits(u, 8)
ndigits_dec(u) == CountDigits(u, 10)
ndigits_hex(u) == CountDigits(u, 16)

ndigits_default_dec(x, base) ==
    LET u == uabs(x) IN
    CASE base = 8 -> ndigits_oct(u)
      [] base = 10 -> ndigits_dec(u)
      [] base = 16 -> ndigits_hex(u)
      [] OTHER -> ndigits_dec(u)

\* ndigits(x, base): switch on the base, 0 when no case matches
ndigits(x, base) ==
    LET u == uabs(x) IN
    CASE base = 8 -> ndigits_oct(u)
      [] base = 10 -> ndigits_dec(u)
      [] base = 16 -> ndigits_hex(u)
      [] OTHER -> 0

DigitChar(d, upper) ==
    IF d < 10 THEN <<"0", "1", "2", "3", "4", "5", "6", "7", "8", "9">>[d + 1]
    ELSE IF upper THEN <<"A", "B", "C", "D", "E", "F">>[d - 9]
    ELSE <<"a", "b", "c", "d", "e", "f">>[d - 9]

\* details::extract_digits: exactly nd digit characters, most significant
\* first; the last position holds u % base, the one before (u / base) % base ...
RECURSIVE extract_digits(_, _, _, _)
extract_digits(u, base, upper, nd) ==
    IF nd = 0 THEN <<>>
    ELSE extract_digits(u \div base, base, upper, nd - 1)
             \o <<DigitChar(u % base, upper)>>

extract_digits_dec(u, nd) == extract_digits(u, 10, FALSE, nd)

\* ---------------------------------------------------------------- int_formatter
Bases == {8, 10, 16}

int_formatter(base, width, flags) ==
    [kind |-> "int", base |-> base, width |-> width, flags |-> flags]

default_int_fmt == [kind |-> "default_int", base |-> 10, width |-> 0, flags |-> 0]

\* int_formatter::any / default_int_formatter::any
any(f, msk) ==
    IF f.kind = "default_int" THEN FALSE ELSE BitAnd(f.flags, msk) # 0

\* the sign character chosen by int_formatter::formatted_write
SignOf(f, x) == IF x < 0 THEN "-" ELSE IF any(f, plus_sign) THEN "+" ELSE NUL

int_mfl_no_width(f, x) ==
    LET n0 == ndigits(x, f.base)
        n == IF x < 0 \/ any(f, plus_sign) THEN n0 + 1 ELSE n0
    IN n

\* int_formatter::max_formatted_length
int_max_formatted_length(f, x) ==
    LET n0 == ndigits(x, f.base)
        n == IF x < 0 \/ any(f, plus_sign) THEN n0 + 1 ELSE n0
    IN IF n > f.width THEN n ELSE f.width

\* What a write call leaves behind:
\*   status "assert"  - the assertion failed, nothing was stored
\*   status "ok"      - out was stored at buf[0 .. Len(out)-1], ret returned
\* buf_len is kept so that a store at an index >= buf_len can be told apart.
WriteResult(status, out, ret, buf_len) ==
    [status |-> status, out |-> out, ret |-> ret, buf_len |-> buf_len]

int_pad_sign_first(f, sgn, flen) ==
    IF f.width > flen
    THEN sgn \o Fill(IF any(f, pad_zeros) THEN "0" ELSE " ", f.width - flen)
    ELSE sgn

\* int_formatter::formatted_write, the characters stored before the digits
int_pad(f, sgn, flen) ==
    IF f.width > flen
    THEN (LET plen == f.width - flen IN
          IF any(f, pad_zeros)
          THEN sgn \o Fill("0", plen)
          ELSE Fill(" ", plen) \o sgn)
    ELSE sgn

int_fw_ret_flen(f, x, buf_len) ==
    LET ax == uabs(x)
        nd == ndigits(ax, f.base)
        sign == SignOf(f, x)
        sgn == IF sign # NUL THEN <<sign>> ELSE <<>>
        flen == nd + Len(sgn)
    IN IF ~(buf_len > flen) THEN WriteResult("assert", <<>>, Undef, buf_len)
       ELSE LET head == int_pad(f, sgn, flen)
                digits == extract_digits(ax, f.base, any(f, upper_case), nd)
            IN WriteResult("ok", head \o digits \o <<NUL>>, flen, buf_len)

\* int_formatter::formatted_write
int_formatted_write(f, x, buf_len) ==
    LET ax == uabs(x)
        nd == ndigits(ax, f.base)
        sign == SignOf(f, x)
        sgn == IF sign # NUL THEN <<sign>> ELSE <<>>
        flen == nd + Len(sgn)
    IN IF ~(buf_len > flen) THEN WriteResult("assert", <<>>, Undef, buf_len)
       ELSE LET head == int_pad(f, sgn, flen)
                digits == extract_digits(ax, f.base, any(f, upper_case), nd)
            IN WriteResult("ok", head \o digits \o <<NUL>>, Len(head) + nd, buf_len)

\* ---------------------------------------------------------------- default_int_formatter
default_int_mfl_no_sign(x) == ndigits_dec(uabs(x))

\* default_int_formatter::max_formatted_length
default_int_max_formatted_length(x) ==
    LET n == ndigits_dec(uabs(x))
    IN IF x < 0 THEN n + 1 ELSE n

default_int_fw_no_sign(x, buf_len) ==
    LET ax == uabs(x)
        nd == ndigits_dec(ax)
        flen == IF x < 0 THEN nd + 1 ELSE nd
    IN IF ~(buf_len > flen) THEN WriteResult("assert", <<>>, Undef, buf_len)
       ELSE WriteResult("ok", extract_digits_dec(ax, nd) \o <<NUL>>, nd, buf_len)

\* default_int_formatter::formatted_write
default_int_formatted_write(x, buf_len) ==
    LET ax == uabs(x)
        nd == ndigits_dec(ax)
        flen == IF x < 0 THEN nd + 1 ELSE nd
        sgn == IF x < 0 THEN <<"-">> ELSE <<>>
    IN IF ~(buf_len > flen) THEN WriteResult("assert", <<>>, Undef, buf_len)
       ELSE WriteResult("ok", sgn \o extract_digits_dec(ax, nd) \o <<NUL>>,
                        flen, buf_len)

\* ---------------------------------------------------------------- float_formatter
\* The doubles that are not finite: an infinity or a NaN, each with its sign
\* bit.  (For a finite x max_formatted_length defers to
\* details::maxfmtlength_fixed / maxfmtlength_sci; finite inputs are not
\* drawn here.)
NonFinite == [cls : {"inf", "nan"}, neg : BOOLEAN]

\* the precisions given to a float formatter (6 is the default)
Precisions == {2, 6}

float_formatter(tag, width, precision, flags) ==
    [kind |-> "float", tag |-> tag, width |-> width,
     precision |-> precision, flags |-> flags]

fixed_fmt == float_formatter("fixed", 0, 6, 0)
sci_fmt == float_formatter("sci", 0, 6, 0)

\* float_fmt_traits<Tag>::printf_sym
printf_sym(tag, upper) ==
    IF tag = "fixed" THEN (IF upper THEN "F" ELSE "f")
    ELSE (IF upper THEN "E" ELSE "e")

\* details::float_cfmt_impl: the printf pattern "%[+][0][width].<precision><sym>"
float_cfmt_impl(fsym, width, precision, plus, zeros) ==
    [plus |-> plus, zeros |-> zeros, width |-> width,
     precision |-> precision, sym |-> fsym]

\* float_formatter::max_formatted_length for a double that is not finite
float_max_formatted_length(f, x) ==
    LET plus == BitAnd(f.flags, plus_sign) # 0
        n == IF x.cls = "inf"
             THEN (IF x.neg \/ plus THEN 4 ELSE 3)
             ELSE (IF plus THEN 4 ELSE 3)
    IN IF n > f.width THEN n ELSE f.width

\* What ::std::snprintf converts a double that is not finite to under the
\* pattern cfmt: [-]inf or [-]nan, in upper case for F and E, with '+' for a
\* value without sign bit under the + flag, padded with spaces on the left
\* up to the field width (the 0 flag does not apply to an infinity or a
\* NaN).  Whether the sign of a NaN is shown is the C library's choice
\* (glibc and musl show it): both texts are possible.
snprintf_texts(cfmt, x) ==
    LET upper == cfmt.sym \in {"F", "E"}
        word == IF x.cls = "inf"
                THEN (IF upper THEN <<"I", "N", "F">> ELSE <<"i", "n", "f">>)
                ELSE (IF upper THEN <<"N", "A", "N">> ELSE <<"n", "a", "n">>)
        plus == IF cfmt.plus THEN <<"+">> ELSE <<>>
        signs == IF ~x.neg THEN {plus}
                 ELSE IF x.cls = "inf" THEN {<<"-">>}
                 ELSE {<<"-">>, plus}
    IN {Fill(" ", Max(cfmt.width - Len(sg \o word), 0)) \o sg \o word : sg \in signs}

\* float_formatter::formatted_write: snprintf stores at most buf_len - 1
\* characters and a terminator and returns the length of the whole text;
\* the assertion n < buf_len comes after the store.
float_formatted_write(f, x, buf_len) ==
    LET fsym == printf_sym(f.tag, BitAnd(f.flags, upper_case) # 0)
        cfmt == float_cfmt_impl(fsym, f.width, f.precision,
                                BitAnd(f.flags, plus_sign) # 0,
                                BitAnd(f.flags, pad_zeros) # 0)
    IN {LET n == Len(t)
            stored == IF buf_len = 0 THEN <<>>
                      ELSE SubSeq(t, 1, Min(n, buf_len - 1)) \o <<NUL>>
        IN WriteResult(IF n < buf_len THEN "ok" ELSE "assert",
                       stored, IF n < buf_len THEN n ELSE Undef, buf_len)
          : t \in snprintf_texts(cfmt, x)}

\* ---------------------------------------------------------------- shortest float conversion
\* A finite non-zero double is neg, f, e with value (-1)^neg * f * 2^e: f has
\* its top bit (the hidden bit) set, or e is the least exponent (subnormal).
\* The format is the IEEE-754 one scaled down to SigBits significand bits.
MinExp == 0 - MaxExp
HiddenBit == 2 ^ (SigBits - 1)

Doubles ==
    {d \in [neg : BOOLEAN, f : 1 .. (2 ^ SigBits - 1), e : MinExp .. MaxExp] :
        d.f >= HiddenBit \/ d.e = MinExp}

\* The scaled-integer intermediate: value f * 2^e with a significand of
\* DiyBits bits (64 in the full-size algorithm, scaled down with the format).
DiyBits == 14
DiyFp(f, e) == [f |-> f, e |-> e]

\* the decimal exponents the table of cached powers covers
MinPow10 == 0 - 4
MaxPow10 == 9

\* the binary exponent window the scaled value is brought into
kAlpha == 4 - DiyBits
kGamma == kAlpha + 3

RECURSIVE BitLen(_)
BitLen(n) == IF n = 0 THEN 0 ELSE 1 + BitLen(n \div 2)

\* step 1: shift the significand up until its top bit is set
Normalize(d) ==
    LET s == DiyBits - BitLen(d.f)
    IN DiyFp(d.f * 2 ^ s, d.e - s)

NormalizedBoundaries_symmetric(f, e) ==
    LET pl == Normalize(DiyFp(2 * f + 1, e - 1))
        mi == DiyFp(2 * f - 1, e - 1)
    IN [plus |-> pl, minus |-> DiyFp(mi.f * 2 ^ (mi.e - pl.e), pl.e)]

\* step 2: the midpoints to the neighbours above and below, on one
\* exponent; below a power of two the neighbour is half as far
NormalizedBoundaries(f, e) ==
    LET pl == Normalize(DiyFp(2 * f + 1, e - 1))
        mi == IF f = HiddenBit THEN DiyFp(4 * f - 1, e - 2)
              ELSE DiyFp(2 * f - 1, e - 1)
    IN [plus |-> pl, minus |-> DiyFp(mi.f * 2 ^ (mi.e - pl.e), pl.e)]

\* step 3: the table entry for 10^k, a DiyBits-bit significand rounded to
\* nearest and its binary exponent
CachedPower(k) ==
    IF k >= 0
    THEN LET n == 10 ^ k
             s == BitLen(n) - DiyBits
         IN IF s <= 0 THEN DiyFp(n * 2 ^ (0 - s), s)
            ELSE LET r == (n + 2 ^ (s - 1)) \div 2 ^ s
                 IN IF r = 2 ^ DiyBits THEN DiyFp(r \div 2, s + 1) ELSE DiyFp(r, s)
    ELSE LET n == 10 ^ (0 - k)
             s == DiyBits - 1 + BitLen(n)
             r == (2 * 2 ^ s + n) \div (2 * n)
         IN IF r = 2 ^ DiyBits THEN DiyFp(r \div 2, 1 - s) ELSE DiyFp(r, 0 - s)

\* the power of ten that brings a value of binary exponent e into the window
GetCachedPowerIndex(e) ==
    CHOOSE k \in MinPow10 .. MaxPow10 :
        /\ e + CachedPower(k).e + DiyBits >= kAlpha
        /\ e + CachedPower(k).e + DiyBits <= kGamma
        /\ \A j \in MinPow10 .. (k - 1) : e + CachedPower(j).e + DiyBits < kAlpha

\* step 4: the fixed-width product, the low half rounded away
DiyMul(a, b) ==
    DiyFp((a.f * b.f + 2 ^ (DiyBits - 1)) \div 2 ^ DiyBits, a.e + b.e + DiyBits)

RECURSIVE CountDecimalDigit(_)
CountDecimalDigit(n) == IF n < 10 THEN 1 ELSE 1 + CountDecimalDigit(n \div 10)

\* step 6: move the last digit down while that brings the text closer to
\* the value and keeps it inside the margins
RECURSIVE GrisuRound(_, _, _, _, _)
GrisuRound(buf, delta, rest, ten_kappa, wp_w) ==
    IF /\ rest < wp_w
       /\ delta - rest >= ten_kappa
       /\ (rest + ten_kappa < wp_w \/ wp_w - rest > rest + ten_kappa - wp_w)
    THEN GrisuRound([buf EXCEPT ![Len(buf)] = @ - 1], delta, rest + ten_kappa,
                    ten_kappa, wp_w)
    ELSE buf

\* step 5, the digits of the fraction
RECURSIVE DigitGenFrac(_, _, _, _, _, _, _)
DigitGenFrac(p2, kappa, buf, delta, onef, wp_w, K) ==
    LET p2a == p2 * 10
        da == delta * 10
        d == p2a \div onef
        buf2 == IF d # 0 \/ buf # <<>> THEN Append(buf, d) ELSE buf
        p2b == p2a % onef
        kap == kappa - 1
    IN IF p2b < da
       THEN [digits |-> GrisuRound(buf2, da, p2b, onef, wp_w * 10 ^ (0 - kap)),
             K |-> K + kap]
       ELSE DigitGenFrac(p2b, kap, buf2, da, onef, wp_w, K)

\* step 5, the digits of the integral part
RECURSIVE DigitGenInt(_, _, _, _, _, _, _, _)
DigitGenInt(p1, p2, kappa, buf, delta, onef, wp_w, K) ==
    IF kappa = 0 THEN DigitGenFrac(p2, 0, buf, delta, onef, wp_w, K)
    ELSE LET pw == 10 ^ (kappa - 1)
             d == p1 \div pw
             r == p1 % pw
             buf2 == IF d # 0 \/ buf # <<>> THEN Append(buf, d) ELSE buf
             kap == kappa - 1
             tmp == r * onef + p2
         IN IF tmp <= delta
            THEN [digits |-> GrisuRound(buf2, delta, tmp, pw * onef, wp_w),
                  K |-> K + kap]
            ELSE DigitGenInt(r, p2, kap, buf2, delta, onef, wp_w, K)

DigitGen(W, Mp, delta, K) ==
    LET onef == 2 ^ (0 - Mp.e)
        p1 == Mp.f \div onef
    IN DigitGenInt(p1, Mp.f % onef, CountDecimalDigit(p1), <<>>, delta, onef,
                   Mp.f - W.f, K)

\* steps 1 to 7 for the magnitude f * 2^e: the digits (values 0..9, most
\* significant first) and the decimal exponent K, value digits * 10^K
Grisu2(f, e) ==
    LET b == NormalizedBoundaries(f, e)
        k == GetCachedPowerIndex(b.plus.e)
        c == CachedPower(k)
        W == DiyMul(Normalize(DiyFp(f, e)), c)
        Wp == DiyMul(b.plus, c)
        Wm == DiyMul(b.minus, c)
    IN DigitGen(W, DiyFp(Wp.f - 1, Wp.e), (Wp.f - 1) - (Wm.f + 1), 0 - k)

\* the decimal numeral of n >= 0 as characters
RECURSIVE DecimalChars(_)
DecimalChars(n) ==
    IF n < 10 THEN <<DigitChar(n, FALSE)>>
    ELSE DecimalChars(n \div 10) \o <<DigitChar(n % 10, FALSE)>>

\* grisu_impl::dtoa: the text of x.  Where the decimal point is placed is
\* not part of the conversion's description; the text is written as the
\* literal <sign><digits>e<exponent>, which denotes digits * 10^exponent.
dtoa(x) ==
    LET g == Grisu2(x.f, x.e)
    IN (IF x.neg THEN <<"-">> ELSE <<>>)
         \o [i \in 1 .. Len(g.digits) |-> DigitChar(g.digits[i], FALSE)]
         \o <<"e">>
         \o (IF g.K < 0 THEN <<"-">> ELSE <<>>)
         \o DecimalChars(IF g.K < 0 THEN 0 - g.K ELSE g.K)

grisu_fmt == [kind |-> "grisu"]

\* grisu_formatter::max_formatted_length
grisu_max_formatted_length(x) == 27

\* grisu_formatter::formatted_write: dtoa stores the whole text and its
\* terminator without knowing buf_len; the assertion n < buf_len comes after
grisu_formatted_write(x, buf_len) ==
    LET t == dtoa(x)
        n == Len(t)
    IN IF n < buf_len THEN WriteResult("ok", t \o <<NUL>>, n, buf_len)
       ELSE WriteResult("overrun", t \o <<NUL>>, Undef, buf_len)

\* ---------------------------------------------------------------- generic facade
\* A store past the end of the caller's buffer is undefined behaviour: the
\* stores may land in adjacent memory and the call return as computed, or the
\* process may die before returning a value.
WriteOutcomes(r) ==
    IF r.status = "ok" /\ Len(r.out) > r.buf_len
    THEN {[r EXCEPT !.status = "overrun"],
          [r EXCEPT !.status = "overrun", !.ret = Undef]}
    ELSE {r}

\* fmt.max_formatted_length(x) / fmt.formatted_write(x, buf, buf_len) for the
\* formatter type Fmt of the template
max_formatted_length(f, x) ==
    CASE f.kind = "int" -> int_max_formatted_length(f, x)
      [] f.kind = "default_int" -> default_int_max_formatted_length(x)
      [] f.kind = "float" -> float_max_formatted_length(f, x)
      [] f.kind = "grisu" -> grisu_max_formatted_length(x)

formatted_write(f, x, buf_len) ==
    CASE f.kind = "int" -> WriteOutcomes(int_formatted_write(f, x, buf_len))
      [] f.kind = "default_int" -> WriteOutcomes(default_int_formatted_write(x, buf_len))
      [] f.kind = "float" -> float_formatted_write(f, x, buf_len)
      [] f.kind = "grisu" -> {grisu_formatted_write(x, buf_len)}

\* the characters of a string of n '\0' after out was stored at its data()
Stored(n, out) ==
    [i \in 1 .. n |-> IF i <= Len(out) THEN out[i] ELSE NUL]

\* strf(x, fmt), completed from the outcome w of its formatted_write call:
\*   alloc  - the size of the string allocated (fmt_len)
\*   cap    - the capacity passed to formatted_write (fmt_len + 1)
\*   status - "ok", "assert" (an assertion of the write path or of strf
\*            failed) or "overrun"
\*   s      - the string returned
strf_finish(fmt_len, w) ==
    LET base == [alloc |-> fmt_len, cap |-> fmt_len + 1, w |-> w,
                 status |-> "ok", s |-> <<>>]
    IN IF w.status = "assert" THEN [base EXCEPT !.status = "assert"]
       ELSE IF w.ret = Undef THEN [base EXCEPT !.status = "overrun"]
       ELSE IF ~(w.ret <= fmt_len) THEN [base EXCEPT !.status = "assert"]
       ELSE [base EXCEPT !.status = w.status,
                         !.s = SubSeq(Stored(fmt_len, w.out), 1, w.ret)]

strf_cap_short(f, x) ==
    LET fmt_len == max_formatted_length(f, x)
    IN {strf_finish(fmt_len, w) :
           w \in formatted_write(f, x, fmt_len)}

\* strf(x, fmt)
strf_outcomes(f, x) ==
    LET fmt_len == max_formatted_length(f, x)
    IN {strf_finish(fmt_len, w) :
           w \in formatted_write(f, x, fmt_len + 1)}

\* default_formatter(x) for an integral x and for a floating x
default_formatter_integral == default_int_fmt
default_formatter_floating == grisu_fmt

\* ---------------------------------------------------------------- state
VARIABLES
    fmt,    \* the formatter value currently held by the caller
    call,   \* the last call made with it and what it produced
    rng,    \* a value_range<T>: its fields first_ and last_
    it,     \* a value_range_iterator over it: its field v_
    walk,   \* the loop for (it = begin(); it != end(); ++it) use(*it):
            \* whether it is under way and the values use() was given
    res     \* the last range or iterator operation and what it returned

rvars == <<rng, it, walk, res>>
vars == <<fmt, call, rng, it, walk, res>>

\* ---------------------------------------------------------------- value_range
\* T is a signed integer type of RangeBits bits, size_type its unsigned
\* counterpart, difference_type T itself.
RMin == 0 - (2 ^ (RangeBits - 1))
RMax == (2 ^ (RangeBits - 1)) - 1
RValues == RMin .. RMax

\* static_cast<size_type>(x) and the conversion of a size_type back to T
ToSizeType(x) == x % (2 ^ RangeBits)
ToT(u) == IF u > RMax THEN u - 2 ^ RangeBits ELSE u

\* The result of an expression: a value, or no defined value at all
\* (signed overflow, a read through a dangling reference).
Defined(v) == [ok |-> TRUE, v |-> v]
Undefined == [ok |-> FALSE, v |-> 0]

\* signed arithmetic on T: the result when it is representable; otherwise
\* the behaviour is undefined - it may wrap around or not yield a value
Arith(n) ==
    IF n \in RValues THEN {Defined(n)}
    ELSE {Defined(ToT(n % (2 ^ RangeBits))), Undefined}

\* range_traits<T>::increment, decrement, eq, distance
increment(x) == Arith(x + 1)
decrement(x) == Arith(x - 1)
eq(x, y) == x = y
distance(x, y) == Arith(y - x)

\* value_range(const T& first, size_type last)
value_range(first, last) == [first |-> first, last |-> ToT(ToSizeType(last))]

\* value_range::size, empty, begin, end
size(r) ==
    {IF d.ok THEN Defined(ToSizeType(d.v)) ELSE Undefined :
        d \in distance(r.first, r.last)}
empty(r) == eq(r.first, r.last)
begin(r) == [v |-> r.first]
end(r) == [v |-> r.last]

\* value_range_iterator::operator== and operator!=
IterEq(a, b) == eq(a.v, b.v)
IterNe(a, b) == ~eq(a.v, b.v)

\* value_range_iterator::operator*: returns T&& bound to the temporary
\* T(v_), which is gone when the caller reads it - the read may still find
\* the value or not
Deref(i) == {Defined(i.v), Undefined}

\* operator++() and operator--(): the iterator afterwards
PreIncrement(i) ==
    {IF n.ok THEN Defined([v |-> n.v]) ELSE [ok |-> FALSE, v |-> i] :
        n \in increment(i.v)}
PreDecrement(i) ==
    {IF n.ok THEN Defined([v |-> n.v]) ELSE [ok |-> FALSE, v |-> i] :
        n \in decrement(i.v)}

\* operator++(int): t = v_; increment(v_); return iterator(t).
\* The iterator afterwards and the iterator returned.
PostIncrement(i) ==
    {IF n.ok THEN [ok |-> TRUE, v |-> [v |-> n.v], ret |-> [v |-> i.v]]
     ELSE [ok |-> FALSE, v |-> i, ret |-> i] : n \in increment(i.v)}

\* operator--(int): t = v_; increment(v_); return iterator(t)
PostDecrement(i) ==
    {IF n.ok THEN [ok |-> TRUE, v |-> [v |-> n.v], ret |-> [v |-> i.v]]
     ELSE [ok |-> FALSE, v |-> i, ret |-> i] : n \in increment(i.v)}

NoRange == [first |-> 0, last |-> 0]
NoRes == [op |-> "none"]
WalkOff == [on |-> FALSE, seen |-> <<>>]
WalkStart == [on |-> TRUE, seen |-> <<>>]

\* no value_range is in use
RangeIdle ==
    /\ rng = NoRange
    /\ it = begin(NoRange)
    /\ walk = WalkOff
    /\ res = NoRes

NoCall == [op |-> "none"]

IsIntFmt == fmt.kind \in {"int", "default_int"}

Init ==
    /\ fmt \in {int_formatter(10, 0, 0), default_int_fmt}
    /\ call = NoCall
    /\ RangeIdle

\* the caller drops the result and is ready for its next call
Return ==
    /\ call # NoCall
    /\ call' = NoCall
    /\ UNCHANGED fmt
    /\ UNCHANGED rvars

\* int_formatter::base(v), ::width(v), ::flags(v), operator|(v), and the
\* same four members of default_int_formatter; each returns a new
\* int_formatter value
SetBase ==
    /\ call = NoCall
    /\ IsIntFmt
    /\ \E v \in Bases : fmt' = int_formatter(v, fmt.width, fmt.flags)
    /\ call' = NoCall
    /\ UNCHANGED rvars

SetWidth ==
    /\ call = NoCall
    /\ IsIntFmt
    /\ \E v \in 0 .. MaxWidth : fmt' = int_formatter(fmt.base, v, fmt.flags)
    /\ call' = NoCall
    /\ UNCHANGED rvars

SetFlags ==
    /\ call = NoCall
    /\ IsIntFmt
    /\ \E v \in FlagValues : fmt' = int_formatter(fmt.base, fmt.width, v)
    /\ call' = NoCall
    /\ UNCHANGED rvars

OrFlags ==
    /\ call = NoCall
    /\ IsIntFmt
    /\ \E v \in FlagBits :
         fmt' = int_formatter(fmt.base, fmt.width, BitOr(fmt.flags, v))
    /\ call' = NoCall
    /\ UNCHANGED rvars

MaxFormattedLength ==
    /\ call = NoCall
    /\ IsIntFmt
    /\ \E x \in IntValues :
         call' = [op |-> "max_formatted_length", x |-> x,
                  ret |-> max_formatted_length(fmt, x)]
    /\ UNCHANGED fmt
    /\ UNCHANGED rvars

FormattedWrite ==
    /\ call = NoCall
    /\ IsIntFmt
    /\ \E x \in IntValues, buf_len \in 0 .. MaxBufLen :
         \E r \in formatted_write(fmt, x, buf_len) :
            call' = [op |-> "formatted_write", x |-> x, w |-> r]
    /\ UNCHANGED fmt
    /\ UNCHANGED rvars

Strf ==
    /\ call = NoCall
    /\ IsIntFmt
    /\ \E x \in IntValues :
         \E r \in strf_outcomes(fmt, x) :
            call' = [op |-> "strf", x |-> x, r |-> r]
    /\ UNCHANGED fmt
    /\ UNCHANGED rvars

\* str(x) for an integral x: strf(x, default_formatter(x))
Str ==
    /\ call = NoCall
    /\ IsIntFmt
    /\ \E x \in IntValues :
         \E r \in strf_outcomes(default_formatter_integral, x) :
            call' = [op |-> "str", x |-> x, r |-> r]
    /\ UNCHANGED fmt
    /\ UNCHANGED rvars

Next ==
    \/ Return
    \/ SetBase
    \/ SetWidth
    \/ SetFlags
    \/ OrFlags
    \/ MaxFormattedLength
    \/ FormattedWrite
    \/ Strf
    \/ Str

Spec == Init /\ [][Next]_vars

\* ---------------------------------------------------------------- float formatter calls
IsFloatFmt == fmt.kind = "float"

FloatInit ==
    /\ fmt \in {fixed_fmt, sci_fmt}
    /\ call = NoCall
    /\ RangeIdle

\* float_formatter::width(v), ::precision(v), ::flags(v), operator|(v)
FloatSetWidth ==
    /\ call = NoCall
    /\ IsFloatFmt
    /\ \E v \in 0 .. MaxWidth :
         fmt' = float_formatter(fmt.tag, v, fmt.precision, fmt.flags)
    /\ call' = NoCall
    /\ UNCHANGED rvars

FloatSetPrecision ==
    /\ call = NoCall
    /\ IsFloatFmt
    /\ \E v \in Precisions :
         fmt' = float_formatter(fmt.tag, fmt.width, v, fmt.flags)
    /\ call' = NoCall
    /\ UNCHANGED rvars

FloatSetFlags ==
    /\ call = NoCall
    /\ IsFloatFmt
    /\ \E v \in FlagValues :
         fmt' = float_formatter(fmt.tag, fmt.width, fmt.precision, v)
    /\ call' = NoCall
    /\ UNCHANGED rvars

FloatOrFlags ==
    /\ call = NoCall
    /\ IsFloatFmt
    /\ \E v \in FlagBits :
         fmt' = float_formatter(fmt.tag, fmt.width, fmt.precision,
                                BitOr(fmt.flags, v))
    /\ call' = NoCall
    /\ UNCHANGED rvars

FloatMaxFormattedLength ==
    /\ call = NoCall
    /\ IsFloatFmt
    /\ \E x \in NonFinite :
         call' = [op |-> "max_formatted_length", x |-> x,
                  ret |-> max_formatted_length(fmt, x)]
    /\ UNCHANGED fmt
    /\ UNCHANGED rvars

FloatFormattedWrite ==
    /\ call = NoCall
    /\ IsFloatFmt
    /\ \E x \in NonFinite, buf_len \in 0 .. MaxBufLen :
         \E r \in formatted_write(fmt, x, buf_len) :
            call' = [op |-> "formatted_write", x |-> x, w |-> r]
    /\ UNCHANGED fmt
    /\ UNCHANGED rvars

FloatStrf ==
    /\ call = NoCall
    /\ IsFloatFmt
    /\ \E x \in NonFinite :
         \E r \in strf_outcomes(fmt, x) :
            call' = [op |-> "strf", x |-> x, r |-> r]
    /\ UNCHANGED fmt
    /\ UNCHANGED rvars

FloatNext ==
    \/ Return
    \/ FloatSetWidth
    \/ FloatSetPrecision
    \/ FloatSetFlags
    \/ FloatOrFlags
    \/ FloatMaxFormattedLength
    \/ FloatFormattedWrite
    \/ FloatStrf

SpecFloat == FloatInit /\ [][FloatNext]_vars

\* ---------------------------------------------------------------- shortest float calls
GrisuInit ==
    /\ fmt = default_formatter_floating
    /\ call = NoCall
    /\ RangeIdle

GrisuMaxFormattedLength ==
    /\ call = NoCall
    /\ fmt.kind = "grisu"
    /\ \E x \in Doubles :
         call' = [op |-> "max_formatted_length", x |-> x,
                  ret |-> max_formatted_length(fmt, x)]
    /\ UNCHANGED fmt
    /\ UNCHANGED rvars

GrisuFormattedWrite ==
    /\ call = NoCall
    /\ fmt.kind = "grisu"
    /\ \E x \in Doubles, buf_len \in 0 .. MaxBufLen :
         \E r \in formatted_write(fmt, x, buf_len) :
            call' = [op |-> "formatted_write", x |-> x, w |-> r]
    /\ UNCHANGED fmt
    /\ UNCHANGED rvars

\* str(x) for a floating x: strf(x, default_formatter(x))
GrisuStr ==
    /\ call = NoCall
    /\ fmt.kind = "grisu"
    /\ \E x \in Doubles :
         \E r \in strf_outcomes(default_formatter_floating, x) :
            call' = [op |-> "str", x |-> x, r |-> r]
    /\ UNCHANGED fmt
    /\ UNCHANGED rvars

GrisuNext ==
    \/ Return
    \/ GrisuMaxFormattedLength
    \/ GrisuFormattedWrite
    \/ GrisuStr

SpecGrisu == GrisuInit /\ [][GrisuNext]_vars

\* ---------------------------------------------------------------- string helpers
\* the characters strings are made of
Alphabet == {"a", "b", "c"}

RECURSIVE StringsUpTo(_)
StringsUpTo(n) ==
    IF n = 0 THEN {<<>>}
    ELSE LET shorter == StringsUpTo(n - 1)
         IN shorter \cup {Append(t, c) : t \in {u \in shorter : Len(u) = n - 1},
                                          c \in Alphabet}

Strings == StringsUpTo(MaxStrLen)

\* basic_string::substr / string_view::substr for pos <= size(): the
\* characters [pos, pos + min(count, size() - pos))
substr(str, pos, count) ==
    LET rlen == Min(count, Len(str) - pos)
    IN [i \in 1 .. rlen |-> str[pos + i]]

suffix_from_front(str, n) ==
    IF n > Len(str) THEN str ELSE substr(str, 0, n)

\* prefix(str, n), suffix(str, n) of clue/stringex.hpp
prefix(str, n) == substr(str, 0, n)

suffix(str, n) ==
    IF n > Len(str) THEN str ELSE substr(str, Len(str) - n, n)

\* ---------------------------------------------------------------- tokenizer
\* the characters of the arrays that are tokenized, and the delimiter sets
\* (a single character, or the characters of a delimiter string)
TokAlphabet == {"a", " ", ","}
DelimSets == {{" "}, {","}, {" ", ","}}

RECURSIVE TokStringsUpTo(_)
TokStringsUpTo(n) ==
    IF n = 0 THEN {<<>>}
    ELSE LET shorter == TokStringsUpTo(n - 1)
         IN shorter \cup {Append(t, c) : t \in {u \in shorter : Len(u) = n - 1},
                                          c \in TokAlphabet}

TokStrings == TokStringsUpTo(MaxTokStrLen)

\* positions are 0-based offsets from the start of the array: str[p + 1] is
\* the character at offset p; n is the number of characters in the view

\* the first offset >= p, below n, that holds no delimiter; n if none
RECURSIVE SkipDelimiters(_, _, _, _)
SkipDelimiters(str, p, n, delims) ==
    IF p < n /\ str[p + 1] \in delims
    THEN SkipDelimiters(str, p + 1, n, delims)
    ELSE p

\* the first offset >= q, below n, that holds a delimiter; n if none
RECURSIVE FindDelimiter(_, _, _, _)
FindDelimiter(str, q, n, delims) ==
    IF q < n /\ str[q + 1] \notin delims
    THEN FindDelimiter(str, q + 1, n, delims)
    ELSE q

\* the calls f(p, len) made from offset p on, f returning true each time
RECURSIVE TokensFrom(_, _, _, _)
TokensFrom(str, p, n, delims) ==
    LET b == SkipDelimiters(str, p, n, delims)
    IN IF b >= n THEN <<>>
       ELSE LET e == FindDelimiter(str, b + 1, n, delims)
            IN <<[start |-> b, len |-> e - b]>> \o TokensFrom(str, e, n, delims)

\* a tokenizer that cuts at every delimiter and reports the empty pieces too
RECURSIVE SplitFrom(_, _, _, _)
SplitFrom(str, p, n, delims) ==
    IF p >= n THEN <<>>
    ELSE LET e == FindDelimiter(str, p, n, delims)
         IN <<[start |-> p, len |-> e - p]>> \o SplitFrom(str, e + 1, n, delims)

foreach_token_split(str, n, delims) == SplitFrom(str, 0, n, delims)

\* foreach_token_of(view of the first n characters of str, delimiters, f):
\* the sequence of calls made to f
foreach_token_of(str, n, delims) == TokensFrom(str, 0, n, delims)

\* ---------------------------------------------------------------- helper calls
HelperInit ==
    /\ fmt = int_formatter(10, 0, 0)
    /\ call = NoCall
    /\ RangeIdle

Ndigits ==
    /\ call = NoCall
    /\ \E x \in IntValues, base \in 0 .. MaxBase :
         call' = [op |-> "ndigits", x |-> x, base |-> base,
                  ret |-> ndigits(x, base)]
    /\ UNCHANGED fmt
    /\ UNCHANGED rvars

Prefix ==
    /\ call = NoCall
    /\ \E str \in Strings, n \in 0 .. MaxCount :
         call' = [op |-> "prefix", str |-> str, n |-> n, ret |-> prefix(str, n)]
    /\ UNCHANGED fmt
    /\ UNCHANGED rvars

Suffix ==
    /\ call = NoCall
    /\ \E str \in Strings, n \in 0 .. MaxCount :
         call' = [op |-> "suffix", str |-> str, n |-> n, ret |-> suffix(str, n)]
    /\ UNCHANGED fmt
    /\ UNCHANGED rvars

\* foreach_token_of on a string_view of the first n characters of str (the
\* whole of it for a C string or a std::string)
ForeachTokenOf ==
    /\ call = NoCall
    /\ \E str \in TokStrings, delims \in DelimSets :
         \E n \in 0 .. Len(str) :
            call' = [op |-> "foreach_token_of", str |-> str, n |-> n,
                     delims |-> delims,
                     ret |-> foreach_token_of(str, n, delims)]
    /\ UNCHANGED fmt
    /\ UNCHANGED rvars

HelperNext ==
    \/ Return
    \/ Ndigits
    \/ Prefix
    \/ Suffix
    \/ ForeachTokenOf

SpecHelpers == HelperInit /\ [][HelperNext]_vars

\* ---------------------------------------------------------------- value_range calls
RangeInit ==
    /\ fmt = int_formatter(10, 0, 0)
    /\ call = NoCall
    /\ \E first \in RValues, last \in RValues : rng = value_range(first, last)
    /\ it = begin(rng)
    /\ walk = WalkStart
    /\ res = NoRes

\* what an operation without defined behaviour leaves: nothing to rely on
Lost(op) ==
    /\ res' = [op |-> op, ok |-> FALSE]
    /\ walk' = WalkOff
    /\ UNCHANGED <<rng, it>>

\* it = r.begin(), the start of the loop
Begin ==
    /\ it' = begin(rng)
    /\ walk' = WalkStart
    /\ res' = [op |-> "begin", ok |-> TRUE]
    /\ UNCHANGED <<fmt, call, rng>>

Size ==
    /\ \E n \in size(rng) : res' = [op |-> "size", ok |-> n.ok, ret |-> n.v]
    /\ UNCHANGED <<fmt, call, rng, it, walk>>

Empty ==
    /\ res' = [op |-> "empty", ok |-> TRUE, ret |-> empty(rng)]
    /\ UNCHANGED <<fmt, call, rng, it, walk>>

\* one turn of the loop: it != end(), use(*it), ++it
LoopStep ==
    /\ walk.on
    /\ IterNe(it, end(rng))
    /\ \E d \in Deref(it), n \in PreIncrement(it) :
         IF d.ok /\ n.ok
         THEN /\ walk' = [walk EXCEPT !.seen = Append(@, d.v)]
              /\ it' = n.v
              /\ res' = [op |-> "loop", ok |-> TRUE]
              /\ UNCHANGED rng
         ELSE Lost("loop")
    /\ UNCHANGED <<fmt, call>>

\* ++it, --it, it++, it-- on their own.  before is the position the call
\* found, before2 the position the call before it found.
Moved(op, n, ret) ==
    IF n.ok
    THEN /\ it' = n.v
         /\ res' = [op |-> op, ok |-> TRUE, before |-> it.v, ret |-> ret.v,
                    prevop |-> res.op,
                    before2 |-> IF res.op \in {"pre_inc", "pre_dec",
                                               "post_inc", "post_dec"} /\ res.ok
                                THEN res.before ELSE it.v]
         /\ walk' = WalkOff
         /\ UNCHANGED rng
    ELSE Lost(op)

PreInc ==
    /\ \E n \in PreIncrement(it) : Moved("pre_inc", n, n.v)
    /\ UNCHANGED <<fmt, call>>

PreDec ==
    /\ \E n \in PreDecrement(it) : Moved("pre_dec", n, n.v)
    /\ UNCHANGED <<fmt, call>>

PostInc ==
    /\ \E n \in PostIncrement(it) : Moved("post_inc", n, n.ret)
    /\ UNCHANGED <<fmt, call>>

PostDec ==
    /\ \E n \in PostDecrement(it) : Moved("post_dec", n, n.ret)
    /\ UNCHANGED <<fmt, call>>

RangeNext ==
    \/ Begin
    \/ Size
    \/ Empty
    \/ LoopStep
    \/ PreInc
    \/ PreDec
    \/ PostInc
    \/ PostDec

SpecRange == RangeInit /\ [][RangeNext]_vars

\* ---------------------------------------------------------------- properties
\* Reference definitions the properties are stated with.

\* the number of digits of u in base b: the n >= 1 with b^(n-1) <= u < b^n
DigitCount(u, b) ==
    CHOOSE n \in 1 .. (IntBits + 1) : u < b ^ n /\ (n = 1 \/ u >= b ^ (n - 1))

DigitChars == <<"0", "1", "2", "3", "4", "5", "6", "7", "8", "9",
                "a", "b", "c", "d", "e", "f">>
UpperDigitChars == <<"0", "1", "2", "3", "4", "5", "6", "7", "8", "9",
                     "A", "B", "C", "D", "E", "F">>

\* the value of a digit character in the given case, -1 if it is none
CharVal(c, upper) ==
    LET tab == IF upper THEN UpperDigitChars ELSE DigitChars
    IN IF \E i \in 1 .. 16 : tab[i] = c
       THEN (CHOOSE i \in 1 .. 16 : tab[i] = c) - 1
       ELSE -1

\* ds is the numeral of u in base b: digits of that base only, most
\* significant first, no leading zero
RECURSIVE NumeralValue(_, _, _)
NumeralValue(ds, b, upper) ==
    IF ds = <<>> THEN 0
    ELSE b * NumeralValue(SubSeq(ds, 1, Len(ds) - 1), b, upper)
           + CharVal(ds[Len(ds)], upper)

IsNumeralOf(ds, u, b, upper) ==
    /\ Len(ds) >= 1
    /\ \A i \in 1 .. Len(ds) : CharVal(ds[i], upper) \in 0 .. (b - 1)
    /\ Len(ds) > 1 => ds[1] # "0"
    /\ NumeralValue(ds, b, upper) = u

\* 1 when a sign character is shown for x
SignLen(f, x) == IF x < 0 \/ BitAnd(f.flags, plus_sign) # 0 THEN 1 ELSE 0

\* max(width, d + s)
FullLength(f, x) == Max(f.width, DigitCount(uabs(x), f.base) + SignLen(f, x))

\* C1: int_formatter::formatted_write stores at most max_formatted_length(x)
\* characters plus one terminator: no buffer index greater than
\* max_formatted_length(x) is stored to.
C1_WriteWithinMaxLength ==
    (call.op = "formatted_write" /\ fmt.kind = "int")
        => \A i \in 0 .. (Len(call.w.out) - 1) :
              i <= max_formatted_length(fmt, call.x)

C1_Witness ==
    /\ call.op = "formatted_write" /\ fmt.kind = "int"
    /\ fmt.width > DigitCount(uabs(call.x), fmt.base) + SignLen(fmt, call.x)
    /\ call.w.status = "ok"
    /\ Len(call.w.out) = max_formatted_length(fmt, call.x) + 1

\* C2 (as claimed): int_formatter::formatted_write fails its assertion and
\* stores nothing whenever buf_len is not strictly greater than the full
\* formatted length (sign, digits and width padding).
C2_RejectsShortBuffer ==
    (/\ call.op = "formatted_write" /\ fmt.kind = "int"
     /\ ~(call.w.buf_len > FullLength(fmt, call.x)))
        => (call.w.status = "assert" /\ call.w.out = <<>>)

\* C3: with width w greater than sign plus digits the output is sign, '0'
\* fill, digits when pad_zeros is set and ' ' fill, sign, digits otherwise,
\* exactly w characters; with w not greater no fill is written.
C3_PaddingLayout ==
    (call.op = "formatted_write" /\ fmt.kind = "int" /\ call.w.status = "ok")
        => LET out == call.w.out
               body == SubSeq(out, 1, Len(out) - 1)
               u == uabs(call.x)
               k == DigitCount(u, fmt.base)
               sgn == IF call.x < 0 THEN <<"-">>
                      ELSE IF BitAnd(fmt.flags, plus_sign) # 0 THEN <<"+">>
                      ELSE <<>>
               flen == k + Len(sgn)
               head == SubSeq(body, 1, Len(body) - k)
               digits == SubSeq(body, Len(body) - k + 1, Len(body))
           IN /\ Len(body) >= k
              /\ IsNumeralOf(digits, u, fmt.base, BitAnd(fmt.flags, upper_case) # 0)
              /\ IF fmt.width > flen
                 THEN /\ Len(body) = fmt.width
                      /\ IF BitAnd(fmt.flags, pad_zeros) # 0
                         THEN head = sgn \o [i \in 1 .. (fmt.width - flen) |-> "0"]
                         ELSE head = [i \in 1 .. (fmt.width - flen) |-> " "] \o sgn
                 ELSE head = sgn
              /\ (fmt.base = 10 /\ fmt.width = 5 /\ fmt.flags = pad_zeros /\ call.x = 42)
                     => body = <<"0", "0", "0", "4", "2">>
              /\ (fmt.base = 10 /\ fmt.width = 5 /\ fmt.flags = 0 /\ call.x = 42)
                     => body = <<" ", " ", " ", "4", "2">>
              /\ (fmt.base = 10 /\ fmt.width = 0 /\ fmt.flags = plus_sign /\ call.x = 7)
                     => body = <<"+", "7">>

C3_Witness ==
    /\ call.op = "formatted_write" /\ fmt.kind = "int" /\ call.w.status = "ok"
    /\ fmt.base = 10 /\ fmt.width = 5 /\ fmt.flags = pad_zeros /\ call.x = -42
    /\ call.w.out = <<"-", "0", "0", "4", "2", NUL>>

\* C4: max_formatted_length(x) = max(width, d + s); formatted_write returns
\* that same number and stores the terminator at exactly that index.
C4_LengthFormula ==
    /\ (call.op = "max_formatted_length" /\ fmt.kind = "int")
          => call.ret = FullLength(fmt, call.x)
    /\ (call.op = "formatted_write" /\ fmt.kind = "int" /\ call.w.status = "ok")
          => /\ call.w.ret = FullLength(fmt, call.x)
             /\ call.w.ret = max_formatted_length(fmt, call.x)
             /\ Len(call.w.out) = call.w.ret + 1
             /\ call.w.out[call.w.ret + 1] = NUL
             /\ \A i \in 1 .. call.w.ret : call.w.out[i] # NUL

C4_Witness ==
    /\ call.op = "formatted_write" /\ fmt.kind = "int" /\ call.w.status = "ok"
    /\ fmt.width = 4 /\ call.x < 0 /\ fmt.base = 16
    /\ call.w.ret = 4 /\ call.w.out[5] = NUL

\* C5: strf allocates exactly max_formatted_length(x) characters, passes
\* capacity max_formatted_length(x) + 1, returns a string as long as the
\* written length, and for every integer and every int_formatter or
\* default_int_formatter neither aborts nor overruns the allocation.
C5_StrfSafe ==
    (call.op = "strf")
        => /\ call.r.alloc = max_formatted_length(fmt, call.x)
           /\ call.r.cap = call.r.alloc + 1
           /\ call.r.w.buf_len = call.r.cap
           /\ call.r.status = "ok"
           /\ call.r.w.ret <= call.r.alloc
           /\ Len(call.r.w.out) <= call.r.cap
           /\ Len(call.r.s) = call.r.w.ret

C5_Witness ==
    /\ call.op = "strf" /\ fmt.kind = "int" /\ call.r.status = "ok"
    /\ fmt.width > 0 /\ call.x < 0
    /\ Len(call.r.s) = call.r.alloc /\ Len(call.r.w.out) = call.r.cap

\* C6 (as claimed): for a NaN or an infinity float_formatter's
\* max_formatted_length returns 3, or 4 if a sign or plus sign must be
\* shown, raised to the minimum width, and is never less than the number of
\* characters formatted_write produces for the same input and flags.
C6_NonFiniteBound ==
    /\ (call.op = "max_formatted_length" /\ fmt.kind = "float"
          /\ ~(call.x.cls = "nan" /\ call.x.neg))
          => call.ret = Max(fmt.width,
                            IF call.x.neg \/ BitAnd(fmt.flags, plus_sign) # 0
                            THEN 4 ELSE 3)
    /\ (call.op = "formatted_write" /\ fmt.kind = "float"
          /\ call.w.status = "ok")
          => max_formatted_length(fmt, call.x) >= call.w.ret
    /\ (call.op = "strf" /\ fmt.kind = "float") => call.r.status = "ok"

\* C7: default_formatter gives the decimal integer formatter for an integral
\* value, and str(x) is '-' exactly when x < 0, followed by the base-10
\* numeral of |x|: no padding, no plus sign, no leading zeros.
C7_StrInteger ==
    /\ default_formatter_integral.kind = "default_int"
    /\ default_formatter_floating.kind = "grisu"
    /\ (call.op = "str")
          => LET s == call.r.s
                 neg == Len(s) > 0 /\ s[1] = "-"
                 digits == IF neg THEN Tail(s) ELSE s
             IN /\ call.r.status = "ok"
                /\ neg <=> (call.x < 0)
                /\ IsNumeralOf(digits, uabs(call.x), 10, FALSE)
                /\ call.x = 0 => s = <<"0">>
                /\ call.x = -5 => s = <<"-", "5">>

C7_Witness ==
    /\ call.op = "str" /\ call.x = -42 /\ call.r.s = <<"-", "4", "2">>

\* What a correctly rounding parser (strtod) makes of a text: the double
\* nearest to the decimal it denotes, the one with the even significand when
\* two are equally near.
Big == 2 ^ 30
SatMul(a, b) == IF b # 0 /\ a > Big \div b THEN Big ELSE a * b

\* D * 10^K <= M * 2^j, and the same with <
DecLe(D, K, M, j) ==
    SatMul(SatMul(D, 10 ^ Max(K, 0)), 2 ^ Max(0 - j, 0))
        <= SatMul(SatMul(M, 10 ^ Max(0 - K, 0)), 2 ^ Max(j, 0))
DecLt(D, K, M, j) ==
    SatMul(SatMul(D, 10 ^ Max(K, 0)), 2 ^ Max(0 - j, 0))
        < SatMul(SatMul(M, 10 ^ Max(0 - K, 0)), 2 ^ Max(j, 0))

\* d is the double nearest to D * 10^K (the midpoints to the neighbours of
\* f * 2^e are (4f+2) * 2^(e-2) above and (4f-2) * 2^(e-2) below, or
\* (4f-1) * 2^(e-2) below a power of two)
RoundsTo(D, K, d) ==
    LET lo == IF d.f = HiddenBit /\ d.e > MinExp THEN 4 * d.f - 1 ELSE 4 * d.f - 2
        hi == 4 * d.f + 2
        even == d.f % 2 = 0
    IN /\ IF even THEN ~DecLt(D, K, lo, d.e - 2) ELSE ~DecLe(D, K, lo, d.e - 2)
       /\ IF even THEN DecLe(D, K, hi, d.e - 2) ELSE DecLt(D, K, hi, d.e - 2)

NoDouble == [neg |-> FALSE, f |-> 0, e |-> 0]

\* the text split at 'e': sign, digits, exponent
ParseText(t) ==
    LET neg == Len(t) > 0 /\ t[1] = "-"
        body == IF neg THEN Tail(t) ELSE t
        epos == CHOOSE i \in 1 .. Len(body) : body[i] = "e"
        digits == SubSeq(body, 1, epos - 1)
        ex == SubSeq(body, epos + 1, Len(body))
        eneg == Len(ex) > 0 /\ ex[1] = "-"
        edigits == IF eneg THEN Tail(ex) ELSE ex
        D == NumeralValue(digits, 10, FALSE)
        K == IF eneg THEN 0 - NumeralValue(edigits, 10, FALSE)
             ELSE NumeralValue(edigits, 10, FALSE)
        cands == {d \in Doubles : d.neg = neg /\ RoundsTo(D, K, d)}
    IN IF cands = {} THEN NoDouble ELSE CHOOSE d \in cands : TRUE

C9_Ndigits ==
    (call.op = "ndigits")
        => IF call.base \in {8, 10, 16}
           THEN /\ call.ret >= 1
                /\ call.ret = DigitCount(uabs(call.x), call.base)
                /\ uabs(call.x) < call.base ^ call.ret
                /\ call.ret > 1 => uabs(call.x) >= call.base ^ (call.ret - 1)
           ELSE call.ret = 0

C9_Witness ==
    call.op = "ndigits" /\ call.base = 8 /\ call.x = -64 /\ call.ret = 3

\* C10: prefix(s, n) is the first min(n, length(s)) characters of s and
\* suffix(s, n) the last min(n, length(s)); a count above the length gives
\* all of s and a count of 0 the empty string.
C10_PrefixSuffix ==
    /\ (call.op = "prefix")
          => /\ Len(call.ret) = Min(call.n, Len(call.str))
             /\ \A i \in 1 .. Len(call.ret) : call.ret[i] = call.str[i]
             /\ call.n > Len(call.str) => call.ret = call.str
             /\ call.n = 0 => call.ret = <<>>
             /\ (call.str = <<"a", "b", "c">> /\ call.n = 2)
                   => call.ret = <<"a", "b">>
    /\ (call.op = "suffix")
          => /\ Len(call.ret) = Min(call.n, Len(call.str))
             /\ \A i \in 1 .. Len(call.ret) :
                   call.ret[i] = call.str[Len(call.str) - Len(call.ret) + i]
             /\ call.n > Len(call.str) => call.ret = call.str
             /\ call.n = 0 => call.ret = <<>>
             /\ (call.str = <<"a", "b", "c">> /\ call.n = 2)
                   => call.ret = <<"b", "c">>

C10_Witness ==
    /\ call.op = "suffix" /\ call.str = <<"a", "b", "c">> /\ call.n = 2
    /\ call.ret = <<"b", "c">>

\* C11: foreach_token_of calls f exactly once for each maximal run of
\* non-delimiter characters, left to right, with the run's start and length;
\* never with an empty token; for a view only the characters inside it
\* count, and a token cut by the view's end is reported truncated.
C11_Tokens ==
    (call.op = "foreach_token_of")
        => LET str == call.str
               n == call.n
               D == call.delims
               toks == call.ret
               IsRun(b, l) ==
                   /\ l >= 1 /\ b >= 0 /\ b + l <= n
                   /\ \A i \in b .. (b + l - 1) : str[i + 1] \notin D
                   /\ b = 0 \/ str[b] \in D
                   /\ b + l = n \/ str[b + l + 1] \in D
               runs == {r \in [start : 0 .. n, len : 1 .. (n + 1)] :
                           IsRun(r.start, r.len)}
           IN /\ \A i \in 1 .. Len(toks) : IsRun(toks[i].start, toks[i].len)
              /\ \A i \in 1 .. (Len(toks) - 1) :
                    toks[i].start + toks[i].len < toks[i + 1].start
              /\ \A r \in runs : \E i \in 1 .. Len(toks) : toks[i] = r
              /\ Len(toks) = Cardinality(runs)

C11_Witness ==
    /\ call.op = "foreach_token_of"
    /\ call.str = <<" ", "a", ",", "a", "a">> /\ call.n = 4
    /\ call.delims = {" ", ","}
    /\ call.ret = <<[start |-> 1, len |-> 1], [start |-> 3, len |-> 1]>>

\* C12: default_int_formatter is int_formatter with base 10, width 0 and no
\* flags: both return the same max_formatted_length(x), and their
\* formatted_write calls store the same characters and terminator and return
\* the same length.
C12_DefaultIntEquivalence ==
    LET plain == int_formatter(10, 0, 0) IN
    /\ (call.op = "max_formatted_length" /\ fmt.kind = "default_int")
          => call.ret = int_max_formatted_length(plain, call.x)
    /\ (call.op = "max_formatted_length" /\ fmt = plain)
          => call.ret = default_int_max_formatted_length(call.x)
    /\ (call.op = "formatted_write" /\ fmt.kind = "default_int")
          => LET other == int_formatted_write(plain, call.x, call.w.buf_len)
             IN /\ call.w.status = other.status
                /\ call.w.out = other.out
                /\ call.w.ret = other.ret
    /\ (call.op = "formatted_write" /\ fmt = plain)
          => LET other == default_int_formatted_write(call.x, call.w.buf_len)
             IN /\ call.w.status = other.status
                /\ call.w.out = other.out
                /\ call.w.ret = other.ret

C12_Witness ==
    /\ call.op = "formatted_write" /\ fmt.kind = "default_int"
    /\ call.x = -42 /\ call.w.status = "ok"
    /\ call.w.out = <<"-", "4", "2", NUL>> /\ call.w.ret = 3
    /\ call.w = int_formatted_write(int_formatter(10, 0, 0), -42, call.w.buf_len)

\* C13 (as claimed): for a value_range over an integral type with
\* first <= last, size() is last - first, empty() holds exactly when size()
\* is 0, and an iterator started at begin() and advanced with pre-increment
\* equals end() after exactly size() steps, dereferencing to first,
\* first + 1, ..., last - 1 in that order.
C13_RangeTraversal ==
    (rng.first <= rng.last)
        => LET n == rng.last - rng.first
               k == Len(walk.seen)
           IN /\ res.op = "size" => (res.ok /\ res.ret = n)
              /\ res.op = "empty" => (res.ret <=> (n = 0))
              /\ res.op = "loop" => res.ok
              /\ walk.on
                    => /\ k <= n
                       /\ it.v = rng.first + k
                       /\ \A i \in 1 .. k : walk.seen[i] = rng.first + i - 1
                       /\ IterEq(it, end(rng)) <=> (k = n)

\* C14 (as claimed): it++ and it-- each return an iterator at the position
\* held before the call and leave it one step forward (++) or one step back
\* (--), as ++it and --it do; it++ followed by it-- restores the position.
\* (Stated away from the ends of T, where the step itself overflows.)
C14_PostIncDec ==
    (res.op \in {"pre_inc", "pre_dec", "post_inc", "post_dec"} /\ res.ok
       /\ res.before > RMin /\ res.before < RMax)
        => /\ res.op = "pre_inc" => it.v = res.before + 1
           /\ res.op = "pre_dec" => it.v = res.before - 1
           /\ res.op = "post_inc"
                 => (res.ret = res.before /\ it.v = res.before + 1)
           /\ res.op = "post_dec"
                 => (res.ret = res.before /\ it.v = res.before - 1)
           /\ (res.op = "post_dec" /\ res.prevop = "post_inc")
                 => it.v = res.before2

====
